---- MODULE Spec2Model ----
(***************************************************************************)
(* A model of PyQt6_JsonTextEdit: the JSON formatter/validator             *)
(* (QJsonFormatter), the editing widget's validity debounce and            *)
(* format/minify operations (QJsonTextEdit), the tree model (QJsonModel)   *)
(* and the syntax highlighter (QJsonHighlighter).                          *)
(*                                                                         *)
(* A text is a sequence of one-character strings; positions in the JSON    *)
(* library operators are 0-based, as in Python.                            *)
(***************************************************************************)
EXTENDS Integers, Sequences, FiniteSets, TLC

VARIABLES
    \* ---- QJsonFormatter (standalone instance) ----
    _indentation,       \* QJsonFormatter._indentation
    _empty_policy,      \* QJsonFormatter._empty_policy
    call,               \* the last call made on the formatter and its outcome
    \* ---- QJsonTextEdit ----
    text,               \* toPlainText()
    ed_indentation,     \* the editor's formatter: _indentation
    ed_empty_policy,    \* the editor's formatter: _empty_policy
    _previous_state,    \* QJsonTextEdit._previous_state ("None", "True", "False")
    _textChangeDelay,   \* QJsonTextEdit._textChangeDelay
    _format_timer,      \* QTimer: [active, interval, remaining]
    initPending,        \* QTimer.singleShot(0, _check_format) not yet delivered
    sinceChange,        \* time elapsed since the last textChanged (capped)
    timerChecks,        \* _check_format runs by the timer since the last textChanged
    burstLen,           \* text changes of the current burst (capped)
    notified,           \* the last two jsonValidityChanged values emitted
    edcall,             \* the last editor operation and its outcome
    \* ---- QJsonModel ----
    items,              \* TreeItem objects: id -> [key, value, value_type, children, parent]
    _rootItem,          \* QJsonModel._rootItem (an id)
    mcall,              \* the last model operation and its outcome
    edits,              \* appendRow, appendRows and setData calls made so far
    \* ---- QJsonHighlighter ----
    hl_text,            \* the text of the block highlightBlock was last called with
    hl_formats          \* the format set for each character of that block

fvars == <<_indentation, _empty_policy, call>>
evars == <<text, ed_indentation, ed_empty_policy, _previous_state, _textChangeDelay,
           _format_timer, initPending, sinceChange, timerChecks, burstLen, notified, edcall>>
mvars == <<items, _rootItem, mcall, edits>>
hvars == <<hl_text, hl_formats>>
vars == <<fvars, evars, mvars, hvars>>

(***************************************************************************)
(* Part 1. The JSON library as the formatter calls it: json.loads          *)
(* (CPython's decoder with its C scanner) and json.dumps.                  *)
(***************************************************************************)

\* Python values. Every value is a record of the same shape:
\*   t = "null" | "bool" | "int" | "str" | "list" | "dict" | "set" | "cycle"
\*   n = the integer (int) or 0/1 (bool), s = the characters (str),
\*   c = the elements (list) or the <<key, value>> pairs (dict).
\* "set" is a value json cannot serialise; "cycle" is a list that contains itself.
PyNone == [t |-> "null", n |-> 0, s |-> <<>>, c |-> <<>>]
PyBool(b) == [t |-> "bool", n |-> IF b THEN 1 ELSE 0, s |-> <<>>, c |-> <<>>]
PyInt(i) == [t |-> "int", n |-> i, s |-> <<>>, c |-> <<>>]
PyStr(chars) == [t |-> "str", n |-> 0, s |-> chars, c |-> <<>>]
PyList(elems) == [t |-> "list", n |-> 0, s |-> <<>>, c |-> elems]
PyDict(pairs) == [t |-> "dict", n |-> 0, s |-> <<>>, c |-> pairs]
PySet == [t |-> "set", n |-> 0, s |-> <<>>, c |-> <<>>]
PyCycle == [t |-> "cycle", n |-> 0, s |-> <<>>, c |-> <<>>]

\* s[i:i+1] of Python: the character at 0-based index i, "" past the end.
At(s, i) == IF i >= 0 /\ i < Len(s) THEN s[i + 1] ELSE ""

\* s[i:j] of Python for 0 <= i.
Slice(s, i, j) ==
    LET hi == IF j > Len(s) THEN Len(s) ELSE j
    IN IF i >= hi THEN <<>> ELSE SubSeq(s, i + 1, hi)

WHITESPACE_STR == {" ", "\t", "\n", "\r"}

\* WHITESPACE.match(s, i).end(): the first index >= i that holds no whitespace.
RECURSIVE SkipWs(_, _)
SkipWs(s, i) ==
    IF i >= Len(s) THEN Len(s)
    ELSE IF At(s, i) \in WHITESPACE_STR THEN SkipWs(s, i + 1) ELSE i

\* A decoder outcome: a value and the index after it, or JSONDecodeError(msg, doc, pos).
Decoded(v, e) == [ok |-> TRUE, val |-> v, end |-> e, msg |-> ""]
JSONDecodeError(m, p) == [ok |-> FALSE, val |-> PyNone, end |-> p, msg |-> m]

Digits == {"0", "1", "2", "3", "4", "5", "6", "7", "8", "9"}
DigitVal(ch) ==
    CASE ch = "0" -> 0 [] ch = "1" -> 1 [] ch = "2" -> 2 [] ch = "3" -> 3
      [] ch = "4" -> 4 [] ch = "5" -> 5 [] ch = "6" -> 6 [] ch = "7" -> 7
      [] ch = "8" -> 8 [] ch = "9" -> 9

\* Literal control characters, which a strict JSON string may not contain.
ControlChars == {"\n", "\t", "\r"}

\* BACKSLASH of json.decoder: the one-character escapes.
BACKSLASH == {"\"", "\\", "/", "b", "f", "n", "r", "t"}
Unescape(ch) ==
    CASE ch = "n" -> "\n" [] ch = "t" -> "\t" [] ch = "r" -> "\r"
      [] ch = "b" -> "<BS>" [] ch = "f" -> "\f" [] OTHER -> ch

\* scanstring(s, end): s[end - 1] is the opening quote. Error positions are those
\* of the C scanner: the control character itself, the backslash of a bad escape.
\* A \u escape needs four hex digits; no modelled text holds a "u" after a
\* backslash, so only its failure is modelled.
RECURSIVE ScanStringFrom(_, _, _, _)
ScanStringFrom(s, begin, end, acc) ==
    LET ch == At(s, end) IN
    IF ch = "" THEN JSONDecodeError("Unterminated string starting at", begin)
    ELSE IF ch = "\"" THEN Decoded(PyStr(acc), end + 1)
    ELSE IF ch \in ControlChars THEN JSONDecodeError("Invalid control character at", end)
    ELSE IF ch = "\\" THEN
        LET esc == At(s, end + 1) IN
        IF esc = "" THEN JSONDecodeError("Unterminated string starting at", begin)
        ELSE IF esc = "u" THEN JSONDecodeError("Invalid \\uXXXX escape", end + 1)
        ELSE IF esc \in BACKSLASH
             THEN ScanStringFrom(s, begin, end + 2, Append(acc, Unescape(esc)))
        ELSE JSONDecodeError("Invalid \\escape", end)
    ELSE ScanStringFrom(s, begin, end + 1, Append(acc, ch))

scanstring(s, end) == ScanStringFrom(s, end - 1, end, <<>>)

\* The end of the longest run of digits from i.
RECURSIVE DigitsEnd(_, _)
DigitsEnd(s, i) == IF At(s, i) \in Digits THEN DigitsEnd(s, i + 1) ELSE i

RECURSIVE DigitsValue(_, _, _, _)
DigitsValue(s, i, j, acc) ==
    IF i >= j THEN acc ELSE DigitsValue(s, i + 1, j, acc * 10 + DigitVal(At(s, i)))

\* NUMBER_RE.match(s, idx), integer part only: -?(?:0|[1-9]\d*). The modelled
\* alphabet has no "." and no exponent, so every number is an int.
match_number(s, idx) ==
    LET neg == At(s, idx) = "-"
        d0 == IF neg THEN idx + 1 ELSE idx
        e == IF At(s, d0) = "0" THEN d0 + 1 ELSE DigitsEnd(s, d0)
    IN IF At(s, d0) \notin Digits THEN JSONDecodeError("Expecting value", idx)
       ELSE Decoded(PyInt((IF neg THEN -1 ELSE 1) * DigitsValue(s, d0, e, 0)), e)

\* dict(pairs): a later pair with the same key replaces the value and keeps the
\* key's first position.
RECURSIVE DictSet(_, _, _)
DictSet(pairs, k, v) ==
    IF pairs = <<>> THEN <<<<k, v>>>>
    ELSE IF Head(pairs)[1] = k THEN <<<<k, v>>>> \o Tail(pairs)
    ELSE <<Head(pairs)>> \o DictSet(Tail(pairs), k, v)

RECURSIVE scan_once(_, _)
RECURSIVE JSONObjectLoop(_, _, _)
RECURSIVE JSONArrayLoop(_, _, _)

\* The index after at most two whitespace characters tested one by one, then a
\* whitespace run: the decoder's "try: if s[end] in _ws: end += 1; if s[end] in
\* _ws: end = _w(s, end + 1).end()".
SkipWsFast(s, e) ==
    IF At(s, e) \in WHITESPACE_STR
    THEN (IF At(s, e + 1) \in WHITESPACE_STR THEN SkipWs(s, e + 2) ELSE e + 1)
    ELSE e

\* "if nextchar in _ws: end = _w(s, end + 1).end()"
SkipWsIf(s, e) == IF At(s, e) \in WHITESPACE_STR THEN SkipWs(s, e + 1) ELSE e

\* JSONObject's loop after "," : the next key must open with a quote at e.
ObjectNextKey(s, e, pairs) ==
    IF At(s, e) # "\""
    THEN JSONDecodeError("Expecting property name enclosed in double quotes", e)
    ELSE JSONObjectLoop(s, e + 1, pairs)

\* JSONObject's loop after a pair: "}" ends the object, "," continues it.
ObjectAfterPair(s, e, pairs) ==
    IF At(s, e) = "}" THEN Decoded(PyDict(pairs), e + 1)
    ELSE IF At(s, e) # "," THEN JSONDecodeError("Expecting ',' delimiter", e)
    ELSE ObjectNextKey(s, SkipWs(s, e + 1), pairs)

\* JSONObject's loop after the value v of key k was scanned.
ObjectAfterValue(s, k, v, pairs) ==
    IF ~v.ok THEN v
    ELSE ObjectAfterPair(s, SkipWsIf(s, v.end), DictSet(pairs, k.val.s, v.val))

\* JSONObject's loop at the ":" expected at e, after key k.
ObjectAfterKey(s, k, e, pairs) ==
    IF At(s, e) # ":" THEN JSONDecodeError("Expecting ':' delimiter", e)
    ELSE ObjectAfterValue(s, k, scan_once(s, SkipWsFast(s, e + 1)), pairs)

\* JSONObject's loop once the key k was scanned.
ObjectKey(s, k, pairs) ==
    IF ~k.ok THEN k
    ELSE ObjectAfterKey(s, k, IF At(s, k.end) # ":" THEN SkipWs(s, k.end) ELSE k.end, pairs)

\* One turn of JSONObject's loop: a key (its quote already consumed), ":", a value,
\* then "}" or "," and the next key's quote.
JSONObjectLoop(s, end0, pairs) == ObjectKey(s, scanstring(s, end0), pairs)

\* JSONObject((s, end)) with the whitespace before the first key skipped.
ObjectOpen(s, end) ==
    IF At(s, end) = "\"" THEN JSONObjectLoop(s, end + 1, <<>>)
    ELSE IF At(s, end) = "}" THEN Decoded(PyDict(<<>>), end + 1)
    ELSE JSONDecodeError("Expecting property name enclosed in double quotes", end)

\* JSONObject((s, end)): s[end - 1] is "{".
JSONObject(s, end0) ==
    ObjectOpen(s, IF At(s, end0) \in WHITESPACE_STR \/ At(s, end0) = ""
                  THEN SkipWs(s, end0) ELSE end0)

\* JSONArray's loop after the value v was scanned and the whitespace behind it skipped.
ArrayAfterValue(s, e, values) ==
    IF At(s, e) = "]" THEN Decoded(PyList(values), e + 1)
    ELSE IF At(s, e) # "," THEN JSONDecodeError("Expecting ',' delimiter", e)
    ELSE JSONArrayLoop(s, SkipWsFast(s, e + 1), values)

ArrayValue(s, v, values) ==
    IF ~v.ok THEN v
    ELSE ArrayAfterValue(s, SkipWsIf(s, v.end), Append(values, v.val))

\* One turn of JSONArray's loop: a value, then "]" or ",".
JSONArrayLoop(s, end0, values) == ArrayValue(s, scan_once(s, end0), values)

ArrayOpen(s, end) ==
    IF At(s, end) = "]" THEN Decoded(PyList(<<>>), end + 1)
    ELSE JSONArrayLoop(s, end, <<>>)

\* JSONArray((s, end)): s[end - 1] is "[".
JSONArray(s, end0) == ArrayOpen(s, SkipWsIf(s, end0))

\* scan_once(string, idx). StopIteration(idx) becomes "Expecting value" at idx in
\* every caller, so it is produced here.
ScanChar(s, idx, nextchar) ==
    IF nextchar = "" THEN JSONDecodeError("Expecting value", idx)
    ELSE IF nextchar = "\"" THEN scanstring(s, idx + 1)
    ELSE IF nextchar = "{" THEN JSONObject(s, idx + 1)
    ELSE IF nextchar = "[" THEN JSONArray(s, idx + 1)
    ELSE IF nextchar = "n" /\ Slice(s, idx, idx + 4) = <<"n", "u", "l", "l">>
         THEN Decoded(PyNone, idx + 4)
    ELSE IF nextchar = "t" /\ Slice(s, idx, idx + 4) = <<"t", "r", "u", "e">>
         THEN Decoded(PyBool(TRUE), idx + 4)
    ELSE IF nextchar = "f" /\ Slice(s, idx, idx + 5) = <<"f", "a", "l", "s", "e">>
         THEN Decoded(PyBool(FALSE), idx + 5)
    ELSE match_number(s, idx)

scan_once(s, idx) == ScanChar(s, idx, At(s, idx))

\* JSONDecoder.decode after raw_decode: trailing whitespace, then the end of the text.
DecodeEnd(s, r, end) ==
    IF end # Len(s) THEN JSONDecodeError("Extra data", end) ELSE r

DecodeValue(s, r) == IF ~r.ok THEN r ELSE DecodeEnd(s, r, SkipWs(s, r.end))

\* json.loads(s) = JSONDecoder.decode(s): leading whitespace, one value, trailing
\* whitespace, then the end of the text.
loads(s) == DecodeValue(s, scan_once(s, SkipWs(s, 0)))

\* JSONDecodeError.lineno and .colno for position pos of doc.
RECURSIVE CountNewlines(_, _)
CountNewlines(doc, pos) ==
    IF pos <= 0 THEN 0
    ELSE (IF At(doc, pos - 1) = "\n" THEN 1 ELSE 0) + CountNewlines(doc, pos - 1)

\* doc.rindex("\n", 0, pos), or -1 when there is none.
RECURSIVE LastNewline(_, _)
LastNewline(doc, pos) ==
    IF pos <= 0 THEN -1
    ELSE IF At(doc, pos - 1) = "\n" THEN pos - 1 ELSE LastNewline(doc, pos - 1)

lineno(doc, pos) == CountNewlines(doc, pos) + 1
colno(doc, pos) == pos - LastNewline(doc, pos)


\* ---- json.dumps ----

\* An encoder outcome: the text, or the exception json.dumps raises.
Encoded(chars) == [exc |-> "", out |-> chars]
EncodeError(e) == [exc |-> e, out |-> <<>>]

\* str(n) for a natural number n.
DigitChar == <<"0", "1", "2", "3", "4", "5", "6", "7", "8", "9">>
RECURSIVE NatRepr(_)
NatRepr(n) == IF n < 10 THEN <<DigitChar[n + 1]>> ELSE NatRepr(n \div 10) \o <<DigitChar[(n % 10) + 1]>>

\* int.__repr__
IntRepr(n) == IF n < 0 THEN <<"-">> \o NatRepr(-n) ELSE NatRepr(n)

\* ESCAPE_DCT of json.encoder (ensure_ascii): the escape of one character.
EscapeChar(ch) ==
    CASE ch = "\"" -> <<"\\", "\"">>
      [] ch = "\\" -> <<"\\", "\\">>
      [] ch = "\n" -> <<"\\", "n">>
      [] ch = "\r" -> <<"\\", "r">>
      [] ch = "\t" -> <<"\\", "t">>
      [] ch = "\f" -> <<"\\", "f">>
      [] ch = "<BS>" -> <<"\\", "b">>
      [] OTHER -> <<ch>>

RECURSIVE EscapeAll(_)
EscapeAll(chars) == IF chars = <<>> THEN <<>> ELSE EscapeChar(Head(chars)) \o EscapeAll(Tail(chars))

\* py_encode_basestring_ascii
encode_basestring(chars) == <<"\"">> \o EscapeAll(chars) \o <<"\"">>

RECURSIVE Spaces(_)
Spaces(n) == IF n <= 0 THEN <<>> ELSE <<" ">> \o Spaces(n - 1)

\* '\n' + _indent * level, where _indent = ' ' * indent; nothing when indent is
\* None. An indent is [set |-> FALSE, n |-> 0] for None and [set |-> TRUE, n |-> i]
\* for the integer i.
NoIndent == [set |-> FALSE, n |-> 0]
IndentOf(i) == [set |-> TRUE, n |-> i]
NewlineIndent(indent, level) == IF ~indent.set THEN <<>> ELSE <<"\n">> \o Spaces(indent.n * level)

\* _iterencode of json.encoder: the text of value o at nesting level `level`.
\* isep and ksep are the item and key separators.
RECURSIVE iterencode(_, _, _, _, _)
RECURSIVE iterencode_items(_, _, _, _, _, _, _)

\* The text of a non-empty container from the text of its items.
Enclose(open, close, body, indent, level) ==
    IF body.exc # "" THEN body
    ELSE Encoded(open \o NewlineIndent(indent, level + 1) \o body.out
                 \o NewlineIndent(indent, level) \o close)

iterencode(o, indent, isep, ksep, level) ==
    CASE o.t = "str" -> Encoded(encode_basestring(o.s))
      [] o.t = "null" -> Encoded(<<"n", "u", "l", "l">>)
      [] o.t = "bool" -> Encoded(IF o.n = 1 THEN <<"t", "r", "u", "e">> ELSE <<"f", "a", "l", "s", "e">>)
      [] o.t = "int" -> Encoded(IntRepr(o.n))
      [] o.t = "list" ->
            IF o.c = <<>> THEN Encoded(<<"[">> \o <<"]">>)
            ELSE Enclose(<<"[">>, <<"]">>,
                         iterencode_items(o.c, FALSE, indent, isep, ksep, level + 1, TRUE),
                         indent, level)
      [] o.t = "dict" ->
            IF o.c = <<>> THEN Encoded(<<"{">> \o <<"}">>)
            ELSE Enclose(<<"{">>, <<"}">>,
                         iterencode_items(o.c, TRUE, indent, isep, ksep, level + 1, TRUE),
                         indent, level)
      [] o.t = "cycle" -> EncodeError("ValueError")
      [] OTHER -> EncodeError("TypeError")

\* "key": value of a dict item from the text v of the value.
KeyValue(key, ksep, v) ==
    IF v.exc # "" THEN v ELSE Encoded(encode_basestring(key) \o ksep \o v.out)

\* The text of an item followed by the text of the items after it.
JoinItems(sep, one, rest) ==
    IF one.exc # "" THEN one
    ELSE IF rest.exc # "" THEN rest
    ELSE Encoded(sep \o one.out \o rest.out)

\* The items of a list, or the key/value pairs of a dict, joined by the separator.
iterencode_items(c, isDict, indent, isep, ksep, level, first) ==
    IF c = <<>> THEN Encoded(<<>>)
    ELSE JoinItems(IF first THEN <<>> ELSE isep \o NewlineIndent(indent, level),
                   IF isDict
                   THEN KeyValue(Head(c)[1], ksep, iterencode(Head(c)[2], indent, isep, ksep, level))
                   ELSE iterencode(Head(c), indent, isep, ksep, level),
                   iterencode_items(Tail(c), isDict, indent, isep, ksep, level, FALSE))

\* json.dumps(obj, indent=indent, separators=separators). separators is <<>> for
\* None or <<item_separator, key_separator>>; with separators None the item
\* separator is ", " without an indent and "," with one, and the key separator is ": ".
dumps(obj, indent, separators) ==
    iterencode(obj, indent,
               IF separators # <<>> THEN separators[1]
               ELSE IF indent.set THEN <<",">> ELSE <<",", " ">>,
               IF separators # <<>> THEN separators[2] ELSE <<":", " ">>,
               0)


(***************************************************************************)
(* Part 2. QJsonFormatter.                                                 *)
(***************************************************************************)

_DEFAULT_INDENT == 2
_DEFAULT_EMPTY_POLICY == TRUE
_MIN_INDENTATION == 0
_MAX_INDENTATION == 10

\* The fields of a JsonFormattingException; NoError when none was constructed.
NoError ==
    [message |-> "", text |-> <<>>, line |-> 0, column |-> 0,
     start_index |-> 0, end_index |-> 0, erroneous_part |-> <<>>]

\* JsonFormattingException.__init__ with end_index = start_index + 1 for every
\* start_index, the length of the text not looked at.
JsonFormattingException_NoClamp(message, txt, decode_error) ==
    [message |-> message, text |-> txt,
     line |-> lineno(txt, decode_error.end),
     column |-> colno(txt, decode_error.end),
     start_index |-> decode_error.end, end_index |-> decode_error.end + 1,
     erroneous_part |-> Slice(txt, decode_error.end, decode_error.end + 1)]

\* JsonFormattingException.__init__(message, text, decode_error), with
\* _extract_erroneous_part.
JsonFormattingException(message, txt, decode_error) ==
    LET start == decode_error.end
        stop == IF start < Len(txt) THEN start + 1 ELSE Len(txt)
    IN [message |-> message, text |-> txt,
        line |-> lineno(txt, decode_error.end),
        column |-> colno(txt, decode_error.end),
        start_index |-> start, end_index |-> stop,
        erroneous_part |-> Slice(txt, start, stop)]

\* How a call ends: it returns a Python value or raises an exception class.
Return(v) == [kind |-> "return", exc |-> "", ret |-> v, err |-> NoError]
Raise(e, err) == [kind |-> "raise", exc |-> e, ret |-> PyNone, err |-> err]

\* QJsonFormatter.isValid(value) under the given empty policy.
isValid(value, empty_policy) ==
    IF value = PyNone \/ value = PyStr(<<>>) THEN Return(PyBool(empty_policy))
    ELSE IF value.t = "str" THEN Return(PyBool(loads(value.s).ok))
    ELSE LET d == dumps(value, NoIndent, <<>>) IN
         IF d.exc = "TypeError" THEN Raise("TypeError", NoError)
         ELSE IF d.exc = "ValueError" THEN Return(PyBool(FALSE))
         ELSE Return(PyBool(loads(d.out).ok))

\* The keyword arguments of format: an indent (or none given) and separators
\* (<<>> when none are given).
NoKwargs == [indent |-> NoIndent, separators |-> <<>>]
MinifyKwargs == [indent |-> NoIndent, separators |-> <<<<",">>, <<":">>>>]

\* format without the "if self.isValid(value)" gate: every input is decoded.
format_NoValidityGate(value, kwargs, indentation, empty_policy) ==
    IF value.t = "str" THEN
        IF ~loads(value.s).ok
        THEN Raise("JsonFormattingException",
                   JsonFormattingException("Invalid JSON input", value.s, loads(value.s)))
        ELSE Return(PyStr(dumps(loads(value.s).val,
                                IF kwargs.indent.set THEN kwargs.indent ELSE IndentOf(indentation),
                                kwargs.separators).out))
    ELSE Raise("JsonFormatterException", NoError)

\* QJsonFormatter.format(value, **kwargs) under the given indentation and policy.
format(value, kwargs, indentation, empty_policy) ==
    LET valid == isValid(value, empty_policy)
        indent == IF kwargs.indent.set THEN kwargs.indent ELSE IndentOf(indentation)
    IN
    IF valid.kind = "raise" THEN Raise("JsonFormatterException", NoError)
    ELSE IF valid.ret # PyBool(TRUE) THEN Return(PyNone)
    ELSE IF value.t = "str" THEN
        LET r == loads(value.s) IN
        IF ~r.ok
        THEN Raise("JsonFormattingException",
                   JsonFormattingException("Invalid JSON input", value.s, r))
        ELSE LET d == dumps(r.val, indent, kwargs.separators) IN
             IF d.exc # "" THEN Raise("JsonFormatterException", NoError)
             ELSE Return(PyStr(d.out))
    ELSE LET d == dumps(value, indent, kwargs.separators) IN
         IF d.exc # "" THEN Raise("JsonFormatterException", NoError)
         ELSE Return(PyStr(d.out))

\* QJsonFormatter.setIndentation(indentation): the outcome and the value stored.
setIndentation(indentation, current) ==
    IF indentation.t # "int"
    THEN [out |-> Raise("IndentationTypeException", NoError), stored |-> current]
    ELSE [out |-> Return(PyNone), stored |-> indentation.n]

\* QJsonFormatter.setEmptyPolicy(empty_policy): the outcome and the value stored.
setEmptyPolicy(empty_policy, current) ==
    IF empty_policy.t # "bool"
    THEN [out |-> Raise("JsonFormatterException", NoError), stored |-> current]
    ELSE [out |-> Return(PyNone), stored |-> (empty_policy.n = 1)]

\* ---- the inputs ----

\* The characters typed texts are made of.
Chars == {"{", "}", "[", "]", "\"", ":", ",", " ", "\n", "1", "a", "\\", "-"}

\* Every text over Chars of length at most MaxTextLen.
MaxTextLen == 2
RECURSIVE TextsOfLen(_)
TextsOfLen(n) ==
    IF n = 0 THEN {<<>>}
    ELSE {Append(t, ch) : t \in TextsOfLen(n - 1), ch \in Chars}
ShortTexts == UNION {TextsOfLen(n) : n \in 0..MaxTextLen}

\* Longer texts, valid and malformed.
T_invalid == <<"{","i","n","v","a","l","i","d">>
T_spaced == <<" ","{"," ","\"","a","\""," ",":"," ","1"," ","}"," ">>
T_nested == <<"{","\"","a","\"",":","1",",","\"","b","\"",":","[","1",",","2","]","}">>
T_trailing == <<"[","1",",","]">>
T_escape == <<"\"","a","\\","n","b","\"">>
T_inner_ws == <<"{","\"","a"," ","b","\"",":"," ","\""," ","1"," ","\"","}">>
T_deep == <<"[","1",","," ","[","1",","," ","{","\"","a","\"",":"," ","[","]","}","]","]">>
T_null == <<"n","u","l","l">>
T_true == <<"[","t","r","u","e","]">>
T_multiline == <<"\n","[","1",",","\n"," ","a","]">>
T_dup == <<"{","\"","a","\"",":","1",",","\"","a","\"",":","2","}">>
T_extra == <<"1"," ","1">>
T_unterminated == <<"{","\"","a","\"",":"," ","\"","b">>
T_blank == <<" ","\n">>
SeedTexts ==
    {T_invalid, T_spaced, T_nested, T_trailing, T_escape, T_inner_ws, T_deep, T_null,
     T_true, T_multiline, T_dup, T_extra, T_unterminated, T_blank}

Texts == ShortTexts \cup SeedTexts

\* Native values handed to the formatter: serialisable ones, a set (json.dumps
\* raises TypeError), a list that contains itself (ValueError), and containers
\* holding them.
NativeValues ==
    {PyNone, PyBool(TRUE), PyInt(0), PyInt(-12),
     PyList(<<>>), PyDict(<<>>),
     PyList(<<PyInt(1), PyStr(<<"a", "\n", "\"">>), PyNone>>),
     PyDict(<<<<(<<"a">>), PyInt(1)>>, <<(<<"b">>), PyList(<<PyInt(1), PyInt(2)>>)>>>>),
     PySet, PyCycle,
     PyList(<<PyInt(1), PySet>>),
     PyDict(<<<<(<<"a">>), PyCycle>>>>)}

FormatterInputs == {PyStr(t) : t \in Texts} \cup NativeValues

\* Arguments tried for setIndentation: integers inside and outside
\* _MIN_INDENTATION.._MAX_INDENTATION, and a value that is no integer.
IndentationInputs ==
    {PyInt(n) : n \in {-1, 0, 2, _MAX_INDENTATION, _MAX_INDENTATION + 1}} \cup {PyStr(<<"2">>)}

EmptyPolicyInputs == {PyBool(TRUE), PyBool(FALSE), PyInt(1)}

KwargsInputs == {NoKwargs, MinifyKwargs}

(***************************************************************************)
(* Part 3. QJsonTextEdit: the editor's text, its formatter, the single-shot *)
(* debounce timer and the format/minify operations.                        *)
(***************************************************************************)

MIN_TEXT_CHANGE_DELAY == 0
MAX_TEXT_CHANGE_DELAY == 1000
DEFAULT_TEXT_CHANGE_DELAY == 100

\* str.splitlines(): the pieces between line breaks (no trailing empty piece).
LineBreaks == {"\n", "\r", "\f"}
\* The indices where a line starts: the first one and those behind a line break.
LineStarts(chars) ==
    {p \in 1..Len(chars) : p = 1 \/ chars[p - 1] \in LineBreaks}
\* The line that starts at p, without its line break.
LineAt(chars, p) ==
    SubSeq(chars, p,
           (CHOOSE e \in p..(Len(chars) + 1) :
               /\ e = Len(chars) + 1 \/ chars[e] \in LineBreaks
               /\ \A i \in p..(e - 1) : chars[i] \notin LineBreaks) - 1)
\* The k-th smallest member of a set of numbers.
Nth(set, k) == CHOOSE p \in set : Cardinality({q \in set : q < p}) = k - 1
splitlines(chars) ==
    [k \in 1..Cardinality(LineStarts(chars)) |-> LineAt(chars, Nth(LineStarts(chars), k))]

\* str.strip(): without the leading and trailing whitespace.
PyWhitespace == {" ", "\t", "\n", "\r", "\f"}
RECURSIVE lstrip(_)
lstrip(chars) ==
    IF chars # <<>> /\ Head(chars) \in PyWhitespace THEN lstrip(Tail(chars)) ELSE chars
RECURSIVE rstrip(_)
rstrip(chars) ==
    IF chars # <<>> /\ chars[Len(chars)] \in PyWhitespace
    THEN rstrip(SubSeq(chars, 1, Len(chars) - 1)) ELSE chars
strip(chars) == rstrip(lstrip(chars))

\* ''.join(line.strip() for line in lines)
RECURSIVE JoinStripped(_)
JoinStripped(lines) ==
    IF lines = <<>> THEN <<>> ELSE strip(Head(lines)) \o JoinStripped(Tail(lines))

\* What an editor operation did: its outcome and how many times it emitted
\* jsonFormattingErrorOccurred.
Done(out, errors) == [out |-> out, errors |-> errors]

\* An isValid property that holds for every text.
edIsValid_Always(txt, empty_policy) == TRUE

\* QJsonTextEdit.isValid (property): formatter.isValid(self.plainTextJson()).
edIsValid(txt, empty_policy) == isValid(PyStr(txt), empty_policy).ret = PyBool(TRUE)

\* minifiedJson that returns the formatter's text as it is, lines not joined.
minifiedJson_NoJoin(txt, indentation, empty_policy) ==
    Done(format(PyStr(txt), MinifyKwargs, indentation, empty_policy), 0)

\* QJsonTextEdit.minifiedJson()
minifiedJson(txt, indentation, empty_policy) ==
    LET f == format(PyStr(txt), MinifyKwargs, indentation, empty_policy) IN
    IF f.kind = "raise" THEN
        IF f.exc = "JsonFormattingException" THEN Done(Return(PyNone), 1)
        ELSE Done(f, 1)
    ELSE IF f.ret.t # "str" THEN Done(Raise("AttributeError", NoError), 1)
    ELSE Done(Return(PyStr(JoinStripped(splitlines(f.ret.s)))), 0)

\* QJsonTextEdit.formattedJson()
formattedJson(txt, indentation, empty_policy) ==
    LET f == format(PyStr(txt), NoKwargs, indentation, empty_policy) IN
    IF f.kind = "raise" THEN
        IF f.exc = "JsonFormattingException" THEN Done(Return(PyNone), 1)
        ELSE Done(f, 0)
    ELSE Done(f, 0)

\* QJsonTextEdit._check_format(): whether jsonValidityChanged is emitted, and the
\* new _previous_state.
_check_format(txt, empty_policy, previous) ==
    LET new_state == isValid(PyStr(txt), empty_policy).ret IN
    [emit |-> new_state # previous,
     state |-> IF new_state # previous THEN new_state ELSE previous]

\* A start() that leaves a running timer alone: the first change's deadline stands.
TimerStart_NoRestart(timer) ==
    IF timer.active THEN timer
    ELSE [timer EXCEPT !.active = TRUE, !.remaining = timer.interval]

\* QTimer.start() on the single-shot _format_timer: (re)starts the full interval.
TimerStart(timer) == [timer EXCEPT !.active = TRUE, !.remaining = timer.interval]

\* QTimer.setInterval(msec): an active timer is restarted with the new interval.
TimerSetInterval(timer, msec) ==
    [timer EXCEPT !.interval = msec,
                  !.remaining = IF timer.active THEN msec ELSE timer.remaining]

\* The jsonValidityChanged values emitted so far, the last two kept.
Notify(log, v) == IF Len(log) < 2 THEN Append(log, v) ELSE <<log[2], v>>

\* ---- bounds and inputs of the editor ----

\* Time advances in steps of TimeStep milliseconds; the time since the last change
\* is followed up to ElapsedCap, no accepted delay in DelayInputs being larger.
TimeStep == 50
ElapsedCap == DEFAULT_TEXT_CHANGE_DELAY
MaxBurst == 3

DelayInputs ==
    {MIN_TEXT_CHANGE_DELAY - 1, MIN_TEXT_CHANGE_DELAY, DEFAULT_TEXT_CHANGE_DELAY,
     MAX_TEXT_CHANGE_DELAY + 1}

\* Texts the user or the host puts into the editor.
EditorTexts == {<<>>, <<"1">>, T_invalid, T_spaced}

EdIndentationInputs == {PyInt(0), PyInt(_MAX_INDENTATION + 1)}

EdIdle == [op |-> "init", out |-> Return(PyNone), errors |-> 0]

\* QJsonTextEdit.__init__: an empty document, a fresh formatter, the timer created
\* and stopped, the 0 ms single shot pending, and jsonValidityChanged emitted once
\* with the validity of the empty text.
EditorInit ==
    /\ text = <<>>
    /\ ed_indentation = _DEFAULT_INDENT
    /\ ed_empty_policy = _DEFAULT_EMPTY_POLICY
    /\ _previous_state = PyNone
    /\ _textChangeDelay = DEFAULT_TEXT_CHANGE_DELAY
    /\ _format_timer = [active |-> FALSE, interval |-> DEFAULT_TEXT_CHANGE_DELAY,
                        remaining |-> 0]
    /\ initPending = TRUE
    /\ sinceChange = -1
    /\ timerChecks = 0
    /\ burstLen = 0
    /\ notified = <<isValid(PyStr(<<>>), _DEFAULT_EMPTY_POLICY).ret>>
    /\ edcall = EdIdle

\* The textChanged signal: _format_timer.start() is connected to it.
OnTextChanged ==
    /\ _format_timer' = TimerStart(_format_timer)
    /\ burstLen' = IF _format_timer.active /\ sinceChange >= 0
                      /\ sinceChange < _textChangeDelay
                   THEN (IF burstLen < MaxBurst THEN burstLen + 1 ELSE burstLen)
                   ELSE 1
    /\ sinceChange' = 0
    /\ timerChecks' = 0

edframe == <<ed_indentation, ed_empty_policy, _previous_state, _textChangeDelay, initPending, notified>>
timeframe == <<_format_timer, sinceChange, timerChecks, burstLen>>

\* The user edits the document, or the host calls setText(t).
SetText(t) ==
    /\ text' = t
    /\ OnTextChanged
    /\ edcall' = [op |-> "setText", out |-> Return(PyNone), errors |-> 0]
    /\ UNCHANGED edframe

\* setText(None): the binding either rejects None (TypeError) or takes it as the
\* empty text.
SetTextOf(op, r) ==
    IF r.out.kind = "return" /\ r.out.ret.t = "str"
    THEN /\ text' = r.out.ret.s
         /\ OnTextChanged
         /\ edcall' = [op |-> op, out |-> Return(PyNone), errors |-> r.errors]
    ELSE IF r.out.kind = "return"
    THEN \/ /\ text' = <<>>
            /\ OnTextChanged
            /\ edcall' = [op |-> op, out |-> Return(PyNone), errors |-> r.errors]
         \/ /\ edcall' = [op |-> op, out |-> Raise("TypeError", NoError), errors |-> r.errors]
            /\ UNCHANGED <<text, timeframe>>
    ELSE /\ edcall' = [op |-> op, out |-> r.out, errors |-> r.errors]
         /\ UNCHANGED <<text, timeframe>>

\* QJsonTextEdit.minifyJson()
MinifyJson ==
    /\ IF edIsValid(text, ed_empty_policy)
       THEN SetTextOf("minifyJson", minifiedJson(text, ed_indentation, ed_empty_policy))
       ELSE /\ edcall' = [op |-> "minifyJson", out |-> Return(PyNone), errors |-> 0]
            /\ UNCHANGED <<text, timeframe>>
    /\ UNCHANGED edframe

\* QJsonTextEdit.formatJson()
FormatJson ==
    /\ IF edIsValid(text, ed_empty_policy)
       THEN SetTextOf("formatJson", formattedJson(text, ed_indentation, ed_empty_policy))
       ELSE /\ edcall' = [op |-> "formatJson", out |-> Return(PyNone), errors |-> 0]
            /\ UNCHANGED <<text, timeframe>>
    /\ UNCHANGED edframe

\* The host calls minifiedJson() itself.
MinifiedJson ==
    /\ LET r == minifiedJson(text, ed_indentation, ed_empty_policy) IN
       edcall' = [op |-> "minifiedJson", out |-> r.out, errors |-> r.errors]
    /\ UNCHANGED <<text, edframe, timeframe>>

\* The host calls formattedJson() itself.
FormattedJson ==
    /\ LET r == formattedJson(text, ed_indentation, ed_empty_policy) IN
       edcall' = [op |-> "formattedJson", out |-> r.out, errors |-> r.errors]
    /\ UNCHANGED <<text, edframe, timeframe>>

\* QJsonTextEdit.setTextChangeDelay(delay)
SetTextChangeDelay(delay) ==
    /\ IF MIN_TEXT_CHANGE_DELAY <= delay /\ delay <= MAX_TEXT_CHANGE_DELAY
       THEN /\ _textChangeDelay' = delay
            /\ _format_timer' = TimerSetInterval(_format_timer, delay)
            /\ edcall' = [op |-> "setTextChangeDelay", out |-> Return(PyNone), errors |-> 0]
       ELSE /\ edcall' = [op |-> "setTextChangeDelay", out |-> Raise("ValueError", NoError),
                          errors |-> 0]
            /\ UNCHANGED <<_textChangeDelay, _format_timer>>
    /\ UNCHANGED <<text, ed_indentation, ed_empty_policy, _previous_state, initPending,
                   notified, sinceChange, timerChecks, burstLen>>

\* editor.formatter.setEmptyPolicy(v)
EdSetEmptyPolicy(v) ==
    /\ LET r == setEmptyPolicy(v, ed_empty_policy) IN
       /\ ed_empty_policy' = r.stored
       /\ edcall' = [op |-> "setEmptyPolicy", out |-> r.out, errors |-> 0]
    /\ UNCHANGED <<text, ed_indentation, _previous_state, _textChangeDelay, initPending,
                   notified, timeframe>>

\* editor.formatter.setIndentation(v)
EdSetIndentation(v) ==
    /\ LET r == setIndentation(v, ed_indentation) IN
       /\ ed_indentation' = r.stored
       /\ edcall' = [op |-> "setIndentation", out |-> r.out, errors |-> 0]
    /\ UNCHANGED <<text, ed_empty_policy, _previous_state, _textChangeDelay, initPending,
                   notified, timeframe>>

\* QJsonTextEdit.setFormatterClass(QJsonFormatter): _init_formatter() makes a new
\* formatter, with the default indentation and empty policy.
SetFormatterClass ==
    /\ ed_indentation' = _DEFAULT_INDENT
    /\ ed_empty_policy' = _DEFAULT_EMPTY_POLICY
    /\ edcall' = [op |-> "setFormatterClass", out |-> Return(PyNone), errors |-> 0]
    /\ UNCHANGED <<text, _previous_state, _textChangeDelay, initPending, notified, timeframe>>

\* The validity check run by a timer: _check_format().
RunCheck ==
    LET c == _check_format(text, ed_empty_policy, _previous_state) IN
    /\ _previous_state' = c.state
    /\ notified' = IF c.emit THEN Notify(notified, c.state) ELSE notified

\* QTimer.singleShot(0, self._check_format), queued by _connect_signals, is delivered.
InitialCheck ==
    /\ initPending
    /\ initPending' = FALSE
    /\ RunCheck
    /\ edcall' = [op |-> "singleShot", out |-> Return(PyNone), errors |-> 0]
    /\ UNCHANGED <<text, ed_indentation, ed_empty_policy, _textChangeDelay, timeframe>>

\* _format_timer.timeout: the interval has run out. Timers fire in the order of
\* their expiry, so the 0 ms single shot has been delivered before.
Timeout ==
    /\ ~initPending
    /\ _format_timer.active
    /\ _format_timer.remaining = 0
    /\ _format_timer' = [_format_timer EXCEPT !.active = FALSE]
    /\ timerChecks' = timerChecks + 1
    /\ RunCheck
    /\ edcall' = [op |-> "timeout", out |-> Return(PyNone), errors |-> 0]
    /\ UNCHANGED <<text, ed_indentation, ed_empty_policy, _textChangeDelay, initPending,
                   sinceChange, burstLen>>

\* TimeStep milliseconds pass.
Advance ==
    /\ \/ (_format_timer.active /\ _format_timer.remaining > 0)
       \/ (sinceChange >= 0 /\ sinceChange < ElapsedCap)
    /\ _format_timer' =
          [_format_timer EXCEPT !.remaining =
              IF _format_timer.active /\ @ > TimeStep THEN @ - TimeStep
              ELSE IF _format_timer.active THEN 0 ELSE @]
    /\ sinceChange' = IF sinceChange < 0 THEN sinceChange
                      ELSE IF sinceChange + TimeStep > ElapsedCap THEN ElapsedCap
                      ELSE sinceChange + TimeStep
    /\ UNCHANGED <<text, edframe, timerChecks, burstLen, edcall>>


(***************************************************************************)
(* Part 4. QJsonModel over TreeItem nodes. An item is                      *)
(* [key, value, value_type, children, parent]: children is the sequence of *)
(* child ids in order, parent an id or NoParent. A key is the characters   *)
(* of a string, or NoneKey for None.                                       *)
(***************************************************************************)

NoParent == 0
NoneKey == <<"<None>">>

\* TreeItem(parent): a new item with no key, no value and no children.
TreeItem(par) ==
    [key |-> NoneKey, value |-> PyNone, value_type |-> "null", children |-> <<>>,
     parent |-> par]

\* The items the host created itself and keeps references to.
HostItems == {1, 2}

\* At most MaxItems items are alive at a time.
MaxItems == 6

\* The host makes at most MaxEdits appendRow, appendRows and setData calls.
MaxEdits == 2

\* Rows are appended under an item while it has fewer than MaxRows children.
MaxRows == 3

\* The id a new item gets.
FreshId(its) == CHOOSE i \in 1..(MaxItems + 1) : i \notin DOMAIN its /\ \A j \in 1..(i - 1) : j \in DOMAIN its

Range(seq) == {seq[i] : i \in DOMAIN seq}

\* TreeItem.setParent(parent)
setParent(its, item, par) == [its EXCEPT ![item].parent = par]

\* The ancestors of item p by parent references, p included.
RECURSIVE AncestorsWithin(_, _, _)
AncestorsWithin(its, p, fuel) ==
    IF p = NoParent \/ p \notin DOMAIN its \/ fuel = 0 THEN {}
    ELSE {p} \cup AncestorsWithin(its, its[p].parent, fuel - 1)
Ancestors(its, p) == AncestorsWithin(its, p, Cardinality(DOMAIN its))

\* TreeItem.appendChild(child) on item par: refused when the child is owned by
\* another item or when par lies under the child; otherwise the child goes to the
\* end of par's children and its parent reference is set.
appendChild(its, par, child) ==
    IF its[child].parent \notin {NoParent, par}
    THEN [ok |-> FALSE, items |-> its]
    ELSE IF child \in Ancestors(its, par)
    THEN [ok |-> FALSE, items |-> its]
    ELSE [ok |-> TRUE,
          items |-> [its EXCEPT ![par].children = Append(@, child), ![child].parent = par]]

\* TreeItem.parse(value): the tree of a native value, built from new items. The
\* result is the item map and the id of the tree's root.
IsContainer(v) == v.t \in {"dict", "list"}
RECURSIVE parse(_, _, _)
RECURSIVE parse_children(_, _, _, _)
\* The node of value v: a container holds no value of its own.
ParsedNode(v, par) ==
    [key |-> NoneKey, value |-> IF IsContainer(v) THEN PyNone ELSE v,
     value_type |-> v.t, children |-> <<>>, parent |-> par]
ParseAt(its, v, par, id) ==
    [id |-> id,
     items |-> IF IsContainer(v)
               THEN parse_children(its @@ (id :> ParsedNode(v, par)), v.c, id, v.t = "dict")
               ELSE its @@ (id :> ParsedNode(v, par))]
parse(its, v, par) == ParseAt(its, v, par, FreshId(its))
\* The parsed child r gets its key and goes to the end of par's children.
AddParsed(r, key, par) ==
    [r.items EXCEPT ![r.id].key = key, ![par].children = Append(@, r.id)]
parse_children(its, elems, par, isDict) ==
    IF elems = <<>> THEN its
    ELSE parse_children(
             AddParsed(parse(its, IF isDict THEN Head(elems)[2] ELSE Head(elems), par),
                       IF isDict THEN Head(elems)[1] ELSE NoneKey, par),
             Tail(elems), par, isDict)

\* How many items parse(v) makes.
RECURSIVE TreeSize(_)
RECURSIVE TreeSizeAll(_, _)
TreeSize(v) == 1 + (IF IsContainer(v) THEN TreeSizeAll(v.c, v.t = "dict") ELSE 0)
TreeSizeAll(elems, isDict) ==
    IF elems = <<>> THEN 0
    ELSE TreeSize(IF isDict THEN Head(elems)[2] ELSE Head(elems)) + TreeSizeAll(Tail(elems), isDict)

\* QJsonModel.to_json(item): the native value of the subtree at item. A dict
\* comprehension keeps one entry per key: the first position, the last value.
RECURSIVE to_json(_, _)
RECURSIVE to_json_children(_, _, _, _)
\* to_json that lists a dict's children in reverse order.
RECURSIVE Reverse(_)
Reverse(seq) == IF seq = <<>> THEN <<>> ELSE Append(Reverse(Tail(seq)), Head(seq))
to_json_Reversed(its, item) ==
    IF its[item].value_type = "dict"
    THEN PyDict(to_json_children(its, Reverse(its[item].children), TRUE, <<>>))
    ELSE IF its[item].value_type = "list"
    THEN PyList(to_json_children(its, its[item].children, FALSE, <<>>))
    ELSE its[item].value

to_json(its, item) ==
    IF its[item].value_type = "dict"
    THEN PyDict(to_json_children(its, its[item].children, TRUE, <<>>))
    ELSE IF its[item].value_type = "list"
    THEN PyList(to_json_children(its, its[item].children, FALSE, <<>>))
    ELSE its[item].value
to_json_children(its, chs, isDict, acc) ==
    IF chs = <<>> THEN acc
    ELSE to_json_children(its, Tail(chs), isDict,
                          IF isDict THEN DictSet(acc, its[Head(chs)].key, to_json(its, Head(chs)))
                          ELSE Append(acc, to_json(its, Head(chs))))

\* The items in `from` and the items under them by child references.
RECURSIVE Under(_, _)
UnderStep(its, from, more) == IF more = from THEN from ELSE Under(its, more)
Under(its, from) ==
    UnderStep(its, from, from \cup UNION {Range(its[i].children) : i \in from})

\* The items an index of the model can name, and the root.
InTree == Under(items, {_rootItem})

\* A model reset drops the old root. Children are owned, the parent reference is
\* weak: what stays alive are the host's items and the items under them, and a
\* parent reference to an item that is gone reads None.
Survivors(its, keep) ==
    [i \in keep |-> IF its[i].parent \in keep THEN its[i]
                    ELSE [its[i] EXCEPT !.parent = NoParent]]
Collect(its) == Survivors(its, Under(its, HostItems))

\* Whether following child references from the root ever comes back to an item.
RECURSIVE HasCycleFrom(_, _, _)
HasCycleFrom(its, item, path) ==
    \/ item \in path
    \/ \E ch \in Range(its[item].children) : HasCycleFrom(its, ch, path \cup {item})


\* ---- inputs of the model ----

Scalars == {PyInt(1), PyStr(<<"s">>), PyBool(TRUE), PyNone}
PairScalars == {PyInt(1), PyNone}
ObjectKeys == {<<"a">>, <<"b">>}

\* Scalars, and lists and dicts of at most two scalars (the two keys in either order).
FlatValues ==
    Scalars
    \cup {PyList(<<>>), PyDict(<<>>)}
    \cup {PyList(<<x, y>>) : x \in PairScalars, y \in PairScalars}
    \cup {PyDict(<<<<kk[1], xy[1]>>, <<kk[2], xy[2]>>>>) :
               kk \in {q \in ObjectKeys \X ObjectKeys : q[1] # q[2]},
               xy \in {q \in PairScalars \X PairScalars : q[1] # q[2]}}

\* Nested values.
V_nested_dict == PyDict(<<<<(<<"b">>), PyList(<<PyInt(1)>>)>>, <<(<<"a">>), PyDict(<<>>)>>>>)
V_nested_list == PyList(<<PyList(<<>>), PyDict(<<<<(<<"a">>), PyStr(<<"s">>)>>>>)>>)

LoadValues == FlatValues \cup {V_nested_dict, V_nested_list}

StringLists == {<<>>, <<(<<"s">>)>>, <<(<<"s">>), (<<"k">>)>>}

\* Row candidates that are lists: [key, value], and a list of the wrong length.
RowLists == {<<(<<"k">>), (<<"s">>)>>, <<(<<"k">>)>>}

\* Item lists handed to appendRows: the host's items, two at a time.
RowItemLists == {<<i, j>> : i \in HostItems, j \in HostItems} \ {<<i, i>> : i \in HostItems}

SetDataValues == {PyStr(<<"k">>)}
Columns == {0, 1, 2}

\* The last operation: its name, load_json's argument, whether the item handed to
\* appendRow or appendRows was a child of another item (owned), whether it is among
\* the new parent's children afterwards (added), the outcome, and for to_json
\* whether it directly follows load_json (fresh).
NoCall == [op |-> "init", arg |-> PyNone, owned |-> FALSE, added |-> FALSE,
           out |-> Return(PyNone), fresh |-> FALSE]

\* QJsonModel.__init__: an empty root item. The host's own items exist, detached.
ModelInit ==
    /\ items = [i \in HostItems \cup {Cardinality(HostItems) + 1} |-> TreeItem(NoParent)]
    /\ _rootItem = Cardinality(HostItems) + 1
    /\ mcall = NoCall
    /\ edits = 0

\* One more call that edits the tree.
Edit ==
    /\ edits < MaxEdits
    /\ edits' = edits + 1

\* The items the host has an index for: the invalid index (the root stands for
\* it) and the first row under the root.
FirstRow ==
    IF items[_rootItem].children = <<>> THEN {} ELSE {items[_rootItem].children[1]}
IndexInputs == {_rootItem} \cup FirstRow

\* The parents rows are appended under: the root (the invalid index), the first
\* row, and the host's own items where they are in the tree.
ParentInputs == {_rootItem} \cup FirstRow \cup (HostItems \cap InTree)

\* Whether `item` is a child of an item other than `par`.
OwnedElsewhere(its, item, par) ==
    \E q \in DOMAIN its : q # par /\ item \in Range(its[q].children)

\* QJsonModel.load_json(data)
Reset(r) ==
    /\ items' = r.items
    /\ _rootItem' = r.id

LoadJson(v) ==
    /\ Cardinality(Under(items, HostItems)) + TreeSize(v) <= MaxItems
    /\ Reset(parse(Collect(items), v, NoParent))
    /\ mcall' = [NoCall EXCEPT !.op = "load_json", !.arg = v, !.out = Return(PyBool(TRUE))]
    /\ UNCHANGED edits

\* The items of setStringList's loop: TreeItem(parent=root), item.value = string,
\* root.appendChild(item).
RECURSIVE AddStrings(_, _, _)
AddString(its, root, id, str) ==
    appendChild(its @@ (id :> [TreeItem(root) EXCEPT !.value = PyStr(str)]), root, id).items
AddStrings(its, root, strs) ==
    IF strs = <<>> THEN its
    ELSE AddStrings(AddString(its, root, FreshId(its), Head(strs)), root, Tail(strs))

\* QJsonModel.setStringList(string_list)
NewRoot(its, root, strs) ==
    [id |-> root, items |-> AddStrings(its @@ (root :> TreeItem(NoParent)), root, strs)]

SetStringList(strs) ==
    /\ Cardinality(Under(items, HostItems)) + 1 + Len(strs) <= MaxItems
    /\ Reset(NewRoot(Collect(items), FreshId(Collect(items)), strs))
    /\ mcall' = [NoCall EXCEPT !.op = "setStringList"]
    /\ UNCHANGED edits

\* QJsonModel.setData(index, value, role) for the index of `item` in column col;
\* the root stands for the invalid index.
setData(its, root, item, col, value) ==
    IF item = root THEN [ret |-> FALSE, items |-> its]
    ELSE IF col = 0 THEN [ret |-> TRUE, items |-> [its EXCEPT ![item].key = value.s]]
    ELSE IF col = 1 THEN [ret |-> TRUE, items |-> [its EXCEPT ![item].value = value]]
    ELSE [ret |-> FALSE, items |-> its]

SetData(item, col, value) ==
    LET r == setData(items, _rootItem, item, col, value) IN
    /\ items' = r.items
    /\ mcall' = [NoCall EXCEPT !.op = "setData", !.out = Return(PyBool(r.ret))]
    /\ Edit
    /\ UNCHANGED _rootItem

\* The part of appendRow and appendRows that attaches one TreeItem under par:
\* item.setParent(parent_item), parent_item.appendChild(item), then setData with
\* the item's own key and value, which changes nothing.
attach(its, par, item) == appendChild(setParent(its, item, par), par, item)

\* QJsonModel.appendRow(item, parent) for a TreeItem.
AppendRowItem(item, par) ==
    LET r == attach(items, par, item) IN
    /\ Len(items[par].children) < MaxRows
    /\ items' = IF r.ok THEN r.items ELSE setParent(items, item, par)
    /\ mcall' = [NoCall EXCEPT !.op = "appendRow",
                               !.owned = OwnedElsewhere(items, item, par),
                               !.added = r.ok,
                               !.out = IF r.ok THEN Return(PyNone)
                                       ELSE Raise("ModelError", NoError)]
    /\ Edit
    /\ UNCHANGED _rootItem

\* QJsonModel.appendRow([key, value], parent): a new TreeItem() is attached; the
\* key and the value of the list are not given to it. A list of another length
\* raises ValueError.
AppendRowList(row, par) ==
    /\ Len(items[par].children) < MaxRows
    /\ IF Len(row) # 2
       THEN /\ mcall' = [NoCall EXCEPT !.op = "appendRowList",
                                       !.out = Raise("ValueError", NoError)]
            /\ UNCHANGED items
       ELSE LET id == FreshId(items)
                r == attach(items @@ (id :> TreeItem(NoParent)), par, id)
            IN /\ Cardinality(DOMAIN items) < MaxItems
               /\ items' = r.items
               /\ mcall' = [NoCall EXCEPT !.op = "appendRowList", !.added = r.ok,
                                          !.arg = PyList(<<PyStr(row[1]), PyStr(row[2])>>)]
    /\ Edit
    /\ UNCHANGED _rootItem

\* The loop of appendRows: the items are attached in turn until one is refused.
RECURSIVE attachAll(_, _, _)
attachAll(its, par, its_to_add) ==
    IF its_to_add = <<>> THEN [ok |-> TRUE, items |-> its]
    ELSE LET r == attach(its, par, Head(its_to_add)) IN
         IF ~r.ok THEN [ok |-> FALSE, items |-> setParent(its, Head(its_to_add), par)]
         ELSE attachAll(r.items, par, Tail(its_to_add))

\* QJsonModel.appendRows(items, parent)
AppendRows(row_items, par) ==
    LET r == attachAll(items, par, row_items) IN
    /\ Len(items[par].children) + Len(row_items) <= MaxRows
    /\ items' = r.items
    /\ mcall' = [NoCall EXCEPT !.op = "appendRows",
                               !.owned = OwnedElsewhere(items, row_items[1], par),
                               !.added = row_items[1] \in Range(r.items[par].children),
                               !.out = IF r.ok THEN Return(PyNone)
                                       ELSE Raise("ModelError", NoError)]
    /\ Edit
    /\ UNCHANGED _rootItem

\* QJsonModel.to_json() of the root; a cycle of children ends in RecursionError.
ToJson ==
    /\ mcall.op # "to_json"
    /\ mcall' = [NoCall EXCEPT !.op = "to_json", !.arg = mcall.arg,
                               !.fresh = (mcall.op = "load_json"),
                               !.out = IF HasCycleFrom(items, _rootItem, {})
                                       THEN Raise("RecursionError", NoError)
                                       ELSE Return(to_json(items, _rootItem))]
    /\ UNCHANGED <<items, _rootItem, edits>>

(***************************************************************************)
(* Part 5. QJsonHighlighter: the rule table and highlightBlock. A block is *)
(* one line of the document; positions are 0-based, as in Qt. A format is  *)
(* named by the category its colour stands for; "None" is the default      *)
(* format of a block highlightBlock is called on.                          *)
(***************************************************************************)

UpperLetters ==
    <<"A", "B", "C", "D", "E", "F", "G", "H", "I", "J", "K", "L", "M",
      "N", "O", "P", "Q", "R", "S", "T", "U", "V", "W", "X", "Y", "Z">>
LowerLetters ==
    <<"a", "b", "c", "d", "e", "f", "g", "h", "i", "j", "k", "l", "m",
      "n", "o", "p", "q", "r", "s", "t", "u", "v", "w", "x", "y", "z">>

\* \w, \s and [A-Z0-9_] of the regular expressions.
WordChars == Range(UpperLetters) \cup Range(LowerLetters) \cup Digits \cup {"_"}
SpaceChars == {" ", "\t", "\n", "\r", "\f"}
UpperChars == Range(UpperLetters) \cup Digits \cup {"_"}

\* The character as CaseInsensitiveOption compares it.
Lower(ch) ==
    IF ch \in Range(UpperLetters)
    THEN LowerLetters[CHOOSE k \in DOMAIN UpperLetters : UpperLetters[k] = ch]
    ELSE ch

\* \b at index i: exactly one of the characters around i is a word character.
WordBoundary(s, i) == (At(s, i - 1) \in WordChars) # (At(s, i) \in WordChars)

\* \d{n} at index i.
DigitsAt(s, i, n) == \A k \in 0..(n - 1) : At(s, i + k) \in Digits

\* The end of \s* from index i.
RECURSIVE SkipSpace(_, _)
SkipSpace(s, i) == IF At(s, i) \in SpaceChars THEN SkipSpace(s, i + 1) ELSE i

\* (?:\\.|[^"\\])*" from index i: the index of the quote that ends the body, or
\* -1. The body cannot hold a bare quote, so there is one candidate only.
RECURSIVE StringBodyEnd(_, _)
StringBodyEnd(s, i) ==
    IF At(s, i) = "" THEN -1
    ELSE IF At(s, i) = "\"" THEN i
    ELSE IF At(s, i) = "\\" THEN (IF At(s, i + 1) = "" THEN -1 ELSE StringBodyEnd(s, i + 2))
    ELSE StringBodyEnd(s, i + 1)

\* \d{4}-\d{2}-\d{2} from index i: the index after it, or -1.
DateEnd(s, i) ==
    IF /\ DigitsAt(s, i, 4) /\ At(s, i + 4) = "-"
       /\ DigitsAt(s, i + 5, 2) /\ At(s, i + 7) = "-"
       /\ DigitsAt(s, i + 8, 2)
    THEN i + 10 ELSE -1

\* (?:\.\d+)? from index e. Each core is followed by the closing quote, which no
\* part of a core matches: the greedy choice is the only one that can succeed.
FractionEnd(s, e) ==
    IF At(s, e) = "." /\ At(s, e + 1) \in Digits THEN DigitsEnd(s, e + 1) ELSE e

\* (?:Z|[+\-]\d{2}:\d{2})? from index e.
ZoneEnd(s, e) ==
    IF At(s, e) = "Z" THEN e + 1
    ELSE IF /\ At(s, e) \in {"+", "-"} /\ DigitsAt(s, e + 1, 2)
            /\ At(s, e + 3) = ":" /\ DigitsAt(s, e + 4, 2)
    THEN e + 6 ELSE e

\* dt: \d{4}-\d{2}-\d{2}T\d{2}:\d{2}:\d{2}(?:\.\d+)?(?:Z|[+\-]\d{2}:\d{2})?
DateTimeEnd(s, i) ==
    IF /\ DateEnd(s, i) = i + 10 /\ At(s, i + 10) = "T"
       /\ DigitsAt(s, i + 11, 2) /\ At(s, i + 13) = ":"
       /\ DigitsAt(s, i + 14, 2) /\ At(s, i + 16) = ":"
       /\ DigitsAt(s, i + 17, 2)
    THEN ZoneEnd(s, FractionEnd(s, i + 19)) ELSE -1

\* [A-Z0-9_]{2,} from index i.
RECURSIVE UpperRunEnd(_, _)
UpperRunEnd(s, i) == IF At(s, i) \in UpperChars THEN UpperRunEnd(s, i + 1) ELSE i
UpperEnd(s, i) == IF UpperRunEnd(s, i) >= i + 2 THEN UpperRunEnd(s, i) ELSE -1

\* The core of a value rule from index i: the index after it, or -1.
CoreEnd(core, s, i) ==
    CASE core = "datetime" -> DateTimeEnd(s, i)
      [] core = "date" -> DateEnd(s, i)
      [] core = "upper" -> UpperEnd(s, i)
      [] core = "string" -> StringBodyEnd(s, i)

\* A match: the index after it and the captured group's start and length.
NoMatch == [ok |-> FALSE, end |-> 0, start |-> -1, length |-> 0]
Match(from, to) == [ok |-> TRUE, end |-> to, start |-> from, length |-> to - from]
Group(to, from, length) == [ok |-> TRUE, end |-> to, start |-> from, length |-> length]

\* (?<=:)"(core)"(?=\s*[,\}\]]) at index i, or with (?<=: ) when spaced: the
\* match with group 1, whose core ends at index e.
ValueMatch(s, i, e, spaced) ==
    IF /\ (IF spaced THEN At(s, i - 2) = ":" /\ At(s, i - 1) = " " ELSE At(s, i - 1) = ":")
       /\ At(s, i) = "\""
       /\ e >= 0
       /\ At(s, e) = "\""
       /\ At(s, SkipSpace(s, e + 1)) \in {",", "}", "]"}
    THEN Group(e + 1, i + 1, e - (i + 1)) ELSE NoMatch

\* "(?:\\.|[^"\\])*"(?=\s*:) at index i, the body ending at index e.
KeyMatch(s, i, e) ==
    IF At(s, i) = "\"" /\ e >= 0 /\ At(s, SkipSpace(s, e + 1)) = ":"
    THEN Match(i, e + 1) ELSE NoMatch

\* (?:[eE][+-]?\d+)? from index e.
ExponentDigits(s, e, d) == IF At(s, d) \in Digits THEN DigitsEnd(s, d) ELSE e
ExponentEnd(s, e) ==
    IF At(s, e) \in {"e", "E"}
    THEN ExponentDigits(s, e, IF At(s, e + 1) \in {"+", "-"} THEN e + 2 ELSE e + 1)
    ELSE e

\* \b-?\d+(?:\.\d+)?(?:[eE][+-]?\d+)?\b at index i, the digits starting at d. A
\* run of digits is taken whole (\b fails inside one); the optional parts are
\* given up in turn, the exponent first, until \b holds at the end.
NumberEnds(s, d) ==
    <<ExponentEnd(s, FractionEnd(s, DigitsEnd(s, d))), FractionEnd(s, DigitsEnd(s, d)),
      ExponentEnd(s, DigitsEnd(s, d)), DigitsEnd(s, d)>>
FirstBoundary(s, i, ends) ==
    IF \E k \in DOMAIN ends : WordBoundary(s, ends[k])
    THEN Match(i, ends[CHOOSE k \in DOMAIN ends :
                          /\ WordBoundary(s, ends[k])
                          /\ \A j \in 1..(k - 1) : ~WordBoundary(s, ends[j])])
    ELSE NoMatch
NumberFrom(s, i, d) ==
    IF WordBoundary(s, i) /\ At(s, d) \in Digits
    THEN FirstBoundary(s, i, NumberEnds(s, d)) ELSE NoMatch
NumberMatch(s, i) == NumberFrom(s, i, IF At(s, i) = "-" THEN i + 1 ELSE i)

\* \b(?:true|false|null)\b at index i, case-insensitive.
Keywords == <<(<<"t", "r", "u", "e">>), (<<"f", "a", "l", "s", "e">>), (<<"n", "u", "l", "l">>)>>
KeywordAt(s, i, kw) ==
    /\ \A k \in DOMAIN kw : Lower(At(s, i + k - 1)) = kw[k]
    /\ WordBoundary(s, i + Len(kw))
KeywordMatch(s, i) ==
    IF WordBoundary(s, i) /\ \E n \in DOMAIN Keywords : KeywordAt(s, i, Keywords[n])
    THEN Match(i, i + Len(Keywords[CHOOSE n \in DOMAIN Keywords : KeywordAt(s, i, Keywords[n])]))
    ELSE NoMatch

\* A rule of self._rules: (regex, fmt, group). The regex is named by the pattern
\* it was compiled from; spaced tells (?<=: ) from (?<=:).
Rule(pattern, fmt, spaced) == [pattern |-> pattern, fmt |-> fmt, spaced |-> spaced]

\* QJsonHighlighter.__init__: the rules in the order _add appends them.
_rules ==
    <<Rule("brace", "Brace", FALSE),
      Rule("quote", "Quote", FALSE),
      Rule("separator", "Separator", FALSE),
      Rule("key", "Key", FALSE),
      Rule("datetime", "DateTime", FALSE), Rule("datetime", "DateTime", TRUE),
      Rule("date", "Date", FALSE), Rule("date", "Date", TRUE),
      Rule("upper", "UppercaseConstant", FALSE), Rule("upper", "UppercaseConstant", TRUE),
      Rule("string", "String", FALSE), Rule("string", "String", TRUE),
      Rule("number", "Number", FALSE),
      Rule("keyword", "Boolean", FALSE)>>

\* The match of the rule's regex that starts at index i.
MatchAt(rule, s, i) ==
    CASE rule.pattern = "brace" ->
            IF At(s, i) \in {"{", "}", "[", "]"} THEN Match(i, i + 1) ELSE NoMatch
      [] rule.pattern = "quote" ->
            IF At(s, i) = "\"" THEN Match(i, i + 1) ELSE NoMatch
      [] rule.pattern = "separator" ->
            IF At(s, i) \in {",", ":"} THEN Match(i, i + 1) ELSE NoMatch
      [] rule.pattern = "key" -> KeyMatch(s, i, StringBodyEnd(s, i + 1))
      [] rule.pattern = "number" -> NumberMatch(s, i)
      [] rule.pattern = "keyword" -> KeywordMatch(s, i)
      [] OTHER -> ValueMatch(s, i, CoreEnd(rule.pattern, s, i + 1), rule.spaced)

\* regex.globalMatch(text): the matches from left to right, each search starting
\* where the match before it ended and finding the leftmost index with a match.
RECURSIVE globalMatch(_, _, _)
MatchesFrom(rule, s, m) == <<m>> \o globalMatch(rule, s, m.end)
globalMatch(rule, s, from) ==
    IF \A i \in from..(Len(s) - 1) : ~MatchAt(rule, s, i).ok THEN <<>>
    ELSE MatchesFrom(rule, s,
             MatchAt(rule, s, CHOOSE i \in from..(Len(s) - 1) :
                                  /\ MatchAt(rule, s, i).ok
                                  /\ \A j \in from..(i - 1) : ~MatchAt(rule, s, j).ok))

\* QSyntaxHighlighter.setFormat(start, count, format): the format of the
\* characters in the range is replaced.
setFormat(formats, start, count, fmt) ==
    [p \in DOMAIN formats |->
        IF p - 1 >= start /\ p - 1 < start + count THEN fmt ELSE formats[p]]

\* The body of highlightBlock's loop for the matches of one rule.
RECURSIVE FormatMatches(_, _, _)
FormatMatches(formats, ms, fmt) ==
    IF ms = <<>> THEN formats
    ELSE FormatMatches(IF Head(ms).start >= 0 /\ Head(ms).length > 0
                       THEN setFormat(formats, Head(ms).start, Head(ms).length, fmt)
                       ELSE formats,
                       Tail(ms), fmt)

\* highlightBlock's loop over the rules.
RECURSIVE ApplyRules(_, _, _)
ApplyRules(formats, s, rules) ==
    IF rules = <<>> THEN formats
    ELSE ApplyRules(FormatMatches(formats, globalMatch(Head(rules), s, 0), Head(rules).fmt),
                    s, Tail(rules))

\* QJsonHighlighter.highlightBlock(text): the format of each character.
highlightBlock(s) == ApplyRules([p \in 1..Len(s) |-> "None"], s, _rules)

\* ---- inputs of the highlighter ----

\* The characters short lines are made of, and every line of at most MaxLineLen
\* of them.
LineChars == {"\"", ":", ",", "}", " ", "1", "-", "A", "a", "."}
MaxLineLen == 2
RECURSIVE LinesOfLen(_)
LinesOfLen(n) ==
    IF n = 0 THEN {<<>>}
    ELSE {Append(t, ch) : t \in LinesOfLen(n - 1), ch \in LineChars}
ShortLines == UNION {LinesOfLen(n) : n \in 0..MaxLineLen}

\* Lines of documents.
L_when ==
    <<"\"", "w", "h", "e", "n", "\"", ":", " ", "\"", "2", "0", "2", "3", "-", "0", "4", "-", "0", "1", "T", "1", "2", ":", "0", "0", ":", "0", "0", "Z", "\"">>
L_when_comma ==
    <<"\"", "w", "h", "e", "n", "\"", ":", " ", "\"", "2", "0", "2", "3", "-", "0", "4", "-", "0", "1", "T", "1", "2", ":", "0", "0", ":", "0", "0", "Z", "\"", ",">>
L_when_zone ==
    <<"{", "\"", "w", "h", "e", "n", "\"", ":", "\"", "2", "0", "2", "3", "-", "0", "4", "-", "0", "1", "T", "1", "2", ":", "0", "0", ":", "0", "0", ".", "5", "+", "0", "2", ":", "0", "0", "\"", "}">>
L_name ==
    <<"\"", "n", "a", "m", "e", "\"", ":", " ", "\"", "A", "l", "i", "c", "e", "\"", ",">>
L_count ==
    <<"\"", "c", "o", "u", "n", "t", "\"", ":", " ", "4", "2">>
L_date ==
    <<"\"", "d", "\"", ":", " ", "\"", "2", "0", "2", "3", "-", "0", "4", "-", "0", "1", "\"", ",">>
L_upper ==
    <<"\"", "k", "\"", ":", "\"", "A", "B", "_", "1", "\"", ",">>
L_keywords ==
    <<"\"", "b", "\"", ":", " ", "T", "r", "u", "e", ",", " ", "\"", "n", "\"", ":", " ", "n", "u", "l", "l", "}">>
L_number_key ==
    <<"\"", "1", "\"", ":", " ", "-", "1", ".", "5", "e", "3", ",">>
L_escaped ==
    <<"\"", "a", "\\", "\"", "b", "\"", " ", ":", " ", "\"", "x", "\\", "\\", "\"", " ", ",">>
L_array ==
    <<"[", "1", ",", " ", "\"", "a", "\"", ",", " ", "2", "0", "2", "3", "-", "0", "4", "]">>
SeedLines ==
    {L_when,
     L_when_comma,
     L_when_zone,
     L_name,
     L_count,
     L_date,
     L_upper,
     L_keywords,
     L_number_key,
     L_escaped,
     L_array}

Lines == ShortLines \cup SeedLines

\* No block has been highlighted yet.
HighlighterInit ==
    /\ hl_text = <<>>
    /\ hl_formats = <<>>

\* The document calls highlightBlock with the text of a block that changed.
HighlightBlock(s) ==
    /\ hl_text' = s
    /\ hl_formats' = highlightBlock(s)

(***************************************************************************)
(* The specifications.                                                     *)
(***************************************************************************)

\* ---- the formatter on its own ----

Idle == [op |-> "idle", arg |-> PyNone, kwargs |-> NoKwargs, out |-> Return(PyNone),
         prev |-> 0]

FormatterInit ==
    /\ _indentation = _DEFAULT_INDENT
    /\ _empty_policy = _DEFAULT_EMPTY_POLICY
    /\ call = Idle

\* The caller makes a call when it has taken the outcome of the previous one.
CallIsValid(v) ==
    /\ call.op = "idle"
    /\ call' = [Idle EXCEPT !.op = "isValid", !.arg = v, !.out = isValid(v, _empty_policy),
                            !.prev = _indentation]
    /\ UNCHANGED <<_indentation, _empty_policy>>

CallFormat(v, kw) ==
    /\ call.op = "idle"
    /\ call' = [Idle EXCEPT !.op = "format", !.arg = v, !.kwargs = kw,
                            !.out = format(v, kw, _indentation, _empty_policy),
                            !.prev = _indentation]
    /\ UNCHANGED <<_indentation, _empty_policy>>

CallSetIndentation(v) ==
    /\ call.op = "idle"
    /\ LET r == setIndentation(v, _indentation) IN
       /\ _indentation' = r.stored
       /\ call' = [Idle EXCEPT !.op = "setIndentation", !.arg = v, !.out = r.out,
                               !.prev = _indentation]
    /\ UNCHANGED _empty_policy

CallSetEmptyPolicy(v) ==
    /\ call.op = "idle"
    /\ LET r == setEmptyPolicy(v, _empty_policy) IN
       /\ _empty_policy' = r.stored
       /\ call' = [Idle EXCEPT !.op = "setEmptyPolicy", !.arg = v, !.out = r.out,
                               !.prev = _indentation]
    /\ UNCHANGED _indentation

\* The caller constructs JsonFormattingException("Invalid JSON input", t, e) from
\* the JSONDecodeError e that json.loads(t) raised, as format does.
CallJsonFormattingException(t) ==
    /\ call.op = "idle"
    /\ ~loads(t).ok
    /\ call' = [Idle EXCEPT !.op = "JsonFormattingException", !.arg = PyStr(t),
                            !.out = [Return(PyNone) EXCEPT
                                        !.err = JsonFormattingException("Invalid JSON input",
                                                                        t, loads(t))],
                            !.prev = _indentation]
    /\ UNCHANGED <<_indentation, _empty_policy>>

\* The caller takes the outcome.
TakeOutcome ==
    /\ call.op # "idle"
    /\ call' = Idle
    /\ UNCHANGED <<_indentation, _empty_policy>>

Init == FormatterInit /\ EditorInit /\ ModelInit /\ HighlighterInit

FormatterNext ==
    \/ \E v \in FormatterInputs : CallIsValid(v) /\ UNCHANGED <<evars, mvars, hvars>>
    \/ \E v \in FormatterInputs, kw \in KwargsInputs : CallFormat(v, kw) /\ UNCHANGED <<evars, mvars, hvars>>
    \/ \E v \in IndentationInputs : CallSetIndentation(v) /\ UNCHANGED <<evars, mvars, hvars>>
    \/ \E v \in EmptyPolicyInputs : CallSetEmptyPolicy(v) /\ UNCHANGED <<evars, mvars, hvars>>
    \/ \E t \in Texts : CallJsonFormattingException(t) /\ UNCHANGED <<evars, mvars, hvars>>
    \/ TakeOutcome /\ UNCHANGED <<evars, mvars, hvars>>

SpecFormatter == Init /\ [][FormatterNext]_vars

\* ---- the editor with its timers ----

EditorNext ==
    \/ \E t \in EditorTexts : SetText(t) /\ UNCHANGED <<fvars, mvars, hvars>>
    \/ MinifyJson /\ UNCHANGED <<fvars, mvars, hvars>>
    \/ FormatJson /\ UNCHANGED <<fvars, mvars, hvars>>
    \/ \E d \in DelayInputs : SetTextChangeDelay(d) /\ UNCHANGED <<fvars, mvars, hvars>>
    \/ \E v \in EmptyPolicyInputs : EdSetEmptyPolicy(v) /\ UNCHANGED <<fvars, mvars, hvars>>
    \/ SetFormatterClass /\ UNCHANGED <<fvars, mvars, hvars>>
    \/ InitialCheck /\ UNCHANGED <<fvars, mvars, hvars>>
    \/ Timeout /\ UNCHANGED <<fvars, mvars, hvars>>
    \/ Advance /\ UNCHANGED <<fvars, mvars, hvars>>

SpecEditor == Init /\ [][EditorNext]_vars

\* ---- the editor with its timers, the event loop running ----

\* A step of the event loop: a timer event that is due is delivered, or time passes.
DeliverInitialCheck == InitialCheck /\ UNCHANGED <<fvars, mvars, hvars>>
DeliverTimeout == Timeout /\ UNCHANGED <<fvars, mvars, hvars>>
TimePasses == Advance /\ UNCHANGED <<fvars, mvars, hvars>>

\* The two deliveries as the variables that record them show them: the pending
\* single shot is taken, the due timeout is counted. Among the steps of EditorNext
\* these are the steps of InitialCheck and of Timeout, enabled when they are.
SingleShotDelivered == initPending /\ initPending' = FALSE
TimeoutDelivered ==
    /\ ~initPending
    /\ _format_timer.active
    /\ _format_timer.remaining = 0
    /\ timerChecks' = timerChecks + 1

\* The event loop keeps running: time passes while a timer is pending, and an
\* event that is due is delivered.
SpecEditorLive ==
    /\ Init
    /\ [][EditorNext]_vars
    /\ WF_initPending(SingleShotDelivered)
    /\ WF_timerChecks(TimeoutDelivered)
    /\ WF_vars(TimePasses)

\* ---- the editor's operations on every text ----

\* The editor at rest with text t in it: t was set, the timer has fired and
\* _check_format has recorded t's validity.
EditorAtRest(t) ==
    /\ text = t
    /\ ed_indentation = _DEFAULT_INDENT
    /\ ed_empty_policy = _DEFAULT_EMPTY_POLICY
    /\ _previous_state = isValid(PyStr(t), _DEFAULT_EMPTY_POLICY).ret
    /\ _textChangeDelay = DEFAULT_TEXT_CHANGE_DELAY
    /\ _format_timer = [active |-> FALSE, interval |-> DEFAULT_TEXT_CHANGE_DELAY,
                        remaining |-> 0]
    /\ initPending = FALSE
    /\ sinceChange = ElapsedCap
    /\ timerChecks = 1
    /\ burstLen = 1
    /\ notified = <<PyBool(TRUE), isValid(PyStr(t), _DEFAULT_EMPTY_POLICY).ret>>
    /\ edcall = [op |-> "timeout", out |-> Return(PyNone), errors |-> 0]

EditorOpsInit ==
    FormatterInit /\ (\E t \in Texts : EditorAtRest(t)) /\ ModelInit /\ HighlighterInit

EditorOpsNext ==
    \/ MinifyJson /\ UNCHANGED <<fvars, mvars, hvars>>
    \/ FormatJson /\ UNCHANGED <<fvars, mvars, hvars>>
    \/ MinifiedJson /\ UNCHANGED <<fvars, mvars, hvars>>
    \/ FormattedJson /\ UNCHANGED <<fvars, mvars, hvars>>
    \/ \E v \in EmptyPolicyInputs : EdSetEmptyPolicy(v) /\ UNCHANGED <<fvars, mvars, hvars>>
    \/ \E v \in EdIndentationInputs : EdSetIndentation(v) /\ UNCHANGED <<fvars, mvars, hvars>>
    \/ SetFormatterClass /\ UNCHANGED <<fvars, mvars, hvars>>

SpecEditorOps == EditorOpsInit /\ [][EditorOpsNext]_vars

\* ---- the tree model ----

ModelNext ==
    \/ \E v \in LoadValues : LoadJson(v) /\ UNCHANGED <<fvars, evars, hvars>>
    \/ \E l \in StringLists : SetStringList(l) /\ UNCHANGED <<fvars, evars, hvars>>
    \/ \E i \in IndexInputs, c \in Columns, v \in SetDataValues :
          SetData(i, c, v) /\ UNCHANGED <<fvars, evars, hvars>>
    \/ \E i \in HostItems, p \in ParentInputs :
          AppendRowItem(i, p) /\ UNCHANGED <<fvars, evars, hvars>>
    \/ \E row \in RowLists, p \in ParentInputs : AppendRowList(row, p) /\ UNCHANGED <<fvars, evars, hvars>>
    \/ \E rows \in RowItemLists, p \in ParentInputs :
          AppendRows(rows, p) /\ UNCHANGED <<fvars, evars, hvars>>
    \/ ToJson /\ UNCHANGED <<fvars, evars, hvars>>

SpecModel == Init /\ [][ModelNext]_vars

\* ---- the highlighter ----

HighlighterNext ==
    \E s \in Lines : HighlightBlock(s) /\ UNCHANGED <<fvars, evars, mvars>>

SpecHighlighter == Init /\ [][HighlighterNext]_vars

(***************************************************************************)
(* The properties.                                                         *)
(***************************************************************************)

\* ---- QJsonFormatter ----

\* C1: isValid returns a boolean and never raises, for every input: any text
\* and any native value, those json cannot serialise included.
C1_IsValidNeverRaises ==
    call.op = "isValid" => call.out.kind = "return" /\ call.out.ret.t = "bool"

\* The position the decoder fails at in the text of the last call.
FailurePos == loads(call.arg.s).end

\* C2: format on malformed JSON text raises JsonFormattingException, whose line,
\* column and start offset are those of the decoder's failure position.
C2_MalformedFormatRaises ==
    (call.op = "format" /\ call.arg.t = "str" /\ ~loads(call.arg.s).ok)
        => /\ call.out.kind = "raise"
           /\ call.out.exc = "JsonFormattingException"
           /\ call.out.err.line = lineno(call.arg.s, FailurePos)
           /\ call.out.err.column = colno(call.arg.s, FailurePos)
           /\ call.out.err.start_index = FailurePos

\* C3: for every input for which isValid(input) is false, format(input) returns
\* None and raises nothing.
C3_InvalidFormatsToNone ==
    (call.op = "format"
        /\ isValid(call.arg, _empty_policy) = Return(PyBool(FALSE)))
        => call.out = Return(PyNone)

\* format was called on "{invalid", which isValid rejects.
C3_Witness ==
    /\ call.op = "format"
    /\ call.arg = PyStr(T_invalid)
    /\ isValid(call.arg, _empty_policy) = Return(PyBool(FALSE))
    /\ call.out = Return(PyNone)

\* C4: setIndentation(n) fails for every integer n outside 0..10 and then leaves the
\* stored indentation at its prior value; for every n in 0..10 it succeeds and the
\* stored indentation becomes n.
C4_IndentationRange ==
    (call.op = "setIndentation" /\ call.arg.t = "int")
        => IF call.arg.n \in _MIN_INDENTATION.._MAX_INDENTATION
           THEN call.out = Return(PyNone) /\ _indentation = call.arg.n
           ELSE call.out.kind = "raise" /\ _indentation = call.prev

\* ---- QJsonTextEdit: the debounce ----

\* A step in which the timer's validity check runs.
TimerCheckRuns == timerChecks' = timerChecks + 1

\* C5: for a burst of text changes less than the delay apart exactly one validity
\* check runs: no second one (at most one per change), a check stays pending until
\* it has run (a later change restarts it), it runs only when the delay has
\* elapsed since the last change, and it records the validity of the text as it
\* is when the timer fires. The checks counted are those of _format_timer, which
\* the changes start; the 0 ms single shot queued at construction is not one.
C5_OneCheckPerBurst ==
    [][/\ timerChecks' <= 1
       /\ (sinceChange' >= 0 /\ timerChecks' = 0) => _format_timer'.active
       /\ TimerCheckRuns =>
             /\ timerChecks = 0
             /\ sinceChange >= _textChangeDelay
             /\ text' = text
             /\ _previous_state' = isValid(PyStr(text), ed_empty_policy).ret]_vars

\* Two or more changes came less than the delay apart, and the one check has run.
C5_Witness == burstLen >= 2 /\ timerChecks = 1 /\ ~_format_timer.active

\* ---- QJsonModel ----

\* C6: load_json(v) followed by to_json() returns a value equal to v, the order of
\* object keys included, whatever tree the model held before.
C6_LoadThenToJson ==
    (mcall.op = "to_json" /\ mcall.fresh) => mcall.out = Return(mcall.arg)

\* A nested value was loaded over a tree the host had edited, and read back.
C6_Witness ==
    /\ mcall.op = "to_json"
    /\ mcall.fresh
    /\ mcall.arg = V_nested_dict
    /\ edits > 0
    /\ mcall.out = Return(V_nested_dict)

\* C7: appending (appendRow or appendRows) a TreeItem that is already a child of
\* another parent fails with an error and does not add the item to the new parent.
C7_OwnedItemRefused ==
    (mcall.op \in {"appendRow", "appendRows"} /\ mcall.owned)
        => mcall.out.kind = "raise" /\ ~mcall.added

\* The items that hold n among their children, and how often p does.
Owners(n) == {q \in DOMAIN items : n \in Range(items[q].children)}
Occurrences(n, p) == Cardinality({i \in DOMAIN items[p].children : items[p].children[i] = n})

\* C8: the nodes form a tree: every non-root node appears in the children of
\* exactly one node, that node is the one its parent reference names, and the
\* parent references lead from every node to the root without a cycle.
C8_NodesFormTree ==
    \A n \in InTree \ {_rootItem} :
        /\ Owners(n) = {items[n].parent}
        /\ Occurrences(n, items[n].parent) = 1
        /\ _rootItem \in Ancestors(items, n)
        /\ ~HasCycleFrom(items, _rootItem, {})

\* ---- QJsonTextEdit: format and minify ----

\* Whether chars holds a whitespace character outside the string literals, from
\* index i on (1-based), inStr telling whether index i lies in a literal.
RECURSIVE OuterWhitespaceFrom(_, _, _)
OuterWhitespaceFrom(chars, i, inStr) ==
    IF i > Len(chars) THEN FALSE
    ELSE IF inStr
         THEN (IF chars[i] = "\\" THEN OuterWhitespaceFrom(chars, i + 2, TRUE)
               ELSE OuterWhitespaceFrom(chars, i + 1, chars[i] # "\""))
         ELSE chars[i] \in PyWhitespace \/ OuterWhitespaceFrom(chars, i + 1, chars[i] = "\"")
OuterWhitespace(chars) == OuterWhitespaceFrom(chars, 1, FALSE)

MinifiedSpaced == <<"{", "\"", "a", "\"", ":", "1", "}">>

\* C9: for every valid JSON text in the editor, minifiedJson returns text with no
\* newline and no whitespace outside string literals that parses to the same
\* value as the input; ' { "a" : 1 } ' yields '{"a":1}'.
C9_MinifiedJson ==
    (edcall.op = "minifiedJson" /\ loads(text).ok)
        => /\ edcall.out.kind = "return"
           /\ edcall.out.ret.t = "str"
           /\ "\n" \notin Range(edcall.out.ret.s)
           /\ ~OuterWhitespace(edcall.out.ret.s)
           /\ loads(edcall.out.ret.s).ok
           /\ loads(edcall.out.ret.s).val = loads(text).val
           /\ text = T_spaced => edcall.out.ret.s = MinifiedSpaced

\* minifiedJson ran on ' { "a" : 1 } ', a valid text with whitespace around
\* every token, and returned a shorter text.
C9_Witness ==
    /\ edcall.op = "minifiedJson"
    /\ text = T_spaced
    /\ edcall.out.kind = "return"
    /\ edcall.out.ret.t = "str"
    /\ Len(edcall.out.ret.s) < Len(text)

\* C10: formatJson and minifyJson never modify the editor's text when that text
\* fails to decode as JSON: after the call the text is what it was before.
C10_UndecodableTextKept ==
    [][(edcall'.op \in {"formatJson", "minifyJson"} /\ ~loads(text).ok)
          => text' = text]_vars

\* formatJson ran on a text that is not empty and does not decode.
C10_Witness ==
    /\ edcall.op = "formatJson"
    /\ text = T_trailing
    /\ ~loads(text).ok

\* C11: whenever formatJson or minifyJson is invoked while the editor's text is
\* malformed JSON, jsonFormattingErrorOccurred is emitted during that call.
C11_MalformedTextReported ==
    [][(edcall'.op \in {"formatJson", "minifyJson"} /\ ~loads(text).ok)
          => edcall'.errors >= 1]_vars

\* ---- QJsonHighlighter ----

\* The categories from the highest priority to the lowest.
PriorityOrder ==
    <<"Key", "DateTime", "Date", "UppercaseConstant", "String", "Number", "Boolean",
      "Quote", "Separator", "Brace">>

\* Whether a rule of the category has a match whose captured text holds index p.
InSpan(m, p) == m.length > 0 /\ p >= m.start /\ p < m.start + m.length
CoveredBy(ms, p) == \E k \in DOMAIN ms : InSpan(ms[k], p)
Claimed(fmt, s, p) ==
    \E r \in DOMAIN _rules : _rules[r].fmt = fmt /\ CoveredBy(globalMatch(_rules[r], s, 0), p)

\* The category of the highest-priority rule that matches index p.
HighestPriority(s, p) ==
    IF \E n \in DOMAIN PriorityOrder : Claimed(PriorityOrder[n], s, p)
    THEN PriorityOrder[CHOOSE n \in DOMAIN PriorityOrder :
                          /\ Claimed(PriorityOrder[n], s, p)
                          /\ \A j \in 1..(n - 1) : ~Claimed(PriorityOrder[j], s, p)]
    ELSE "None"

\* C12: after highlightBlock, the category of every character position is that of
\* the highest-priority rule matching the position, in the order keys, datetime,
\* date, uppercase constant, generic string, number, boolean/null, quote,
\* separator, brace: no later rule re-categorises what an earlier one claimed.
C12_FirstClaimWins ==
    \A p \in 0..(Len(hl_text) - 1) : hl_formats[p + 1] = HighestPriority(hl_text, p)

\* The indices of the opening quotes of property values that are quoted ISO-8601
\* datetimes: behind ":" or ": ", with the closing quote behind the datetime.
DateTimeValues(s) ==
    {i \in 0..(Len(s) - 1) :
        /\ At(s, i - 1) = ":" \/ (At(s, i - 2) = ":" /\ At(s, i - 1) = " ")
        /\ At(s, i) = "\""
        /\ DateTimeEnd(s, i + 1) >= 0
        /\ At(s, DateTimeEnd(s, i + 1)) = "\""}

\* C13: in a line whose property value is a quoted ISO-8601 datetime, with or
\* without a comma behind it, every character of the datetime has the DateTime
\* category: none is left as generic String or Number.
C13_DateTimeCategory ==
    \A i \in DateTimeValues(hl_text) :
        \A p \in (i + 1)..(DateTimeEnd(hl_text, i + 1) - 1) : hl_formats[p + 1] = "DateTime"

\* ---- JsonFormattingException ----

\* C14: every constructed JsonFormattingException has
\* end_index = min(start_index + 1, len(text)), end_index >= start_index and
\* erroneous_part = text[start_index:end_index], for every text and the position
\* the decoder's error for that text carries.
C14_ErroneousPart ==
    call.out.err # NoError =>
        /\ call.out.err.end_index =
              (IF call.out.err.start_index + 1 <= Len(call.out.err.text)
               THEN call.out.err.start_index + 1 ELSE Len(call.out.err.text))
        /\ call.out.err.end_index >= call.out.err.start_index
        /\ call.out.err.erroneous_part =
              (IF call.out.err.start_index < call.out.err.end_index
               THEN <<call.out.err.text[call.out.err.start_index + 1]>> ELSE <<>>)

\* An exception was constructed for a text that is not empty and whose decoding
\* fails at its end: nothing is left to extract.
C14_Witness ==
    /\ call.op = "JsonFormattingException"
    /\ call.out.err.text # <<>>
    /\ call.out.err.start_index = Len(call.out.err.text)
    /\ call.out.err.end_index = Len(call.out.err.text)
    /\ call.out.err.erroneous_part = <<>>

\* ---- QJsonModel: appendRow([key, value], parent) ----

\* What appendRow([key, value], parent) is to do under item p: one new item at the
\* end of p's children with the given key and value, the rows before it kept.
RowAppendedUnder(p, row) ==
    /\ Len(items'[p].children) = Len(items[p].children) + 1
    /\ SubSeq(items'[p].children, 1, Len(items[p].children)) = items[p].children
    /\ items'[p].children[Len(items'[p].children)] \notin DOMAIN items
    /\ items'[items'[p].children[Len(items'[p].children)]].key = row[1].s
    /\ items'[items'[p].children[Len(items'[p].children)]].value = row[2]
    /\ \A q \in Range(items[p].children) :
          items'[q].key = items[q].key /\ items'[q].value = items[q].value

\* C15: appendRow([key, value], parent) appends exactly one new child at the end
\* of parent's children, whose key is the given key and whose value is the given
\* value; the rows already under parent keep their index, key and value.
C15_RowListAppended ==
    [][(mcall'.op = "appendRowList" /\ mcall'.out.kind = "return")
          => \E p \in DOMAIN items : RowAppendedUnder(p, mcall'.arg.c)]_vars

\* ---- QJsonFormatter: isValid and format ----

\* C16: whenever isValid(input) is true, format(input) returns a text: it neither
\* raises nor returns None, for every input and both empty policies, the empty
\* string and None included.
C16_ValidInputFormats ==
    (call.op = "format" /\ isValid(call.arg, _empty_policy) = Return(PyBool(TRUE)))
        => call.out.kind = "return" /\ call.out.ret.t = "str"

\* ---- QJsonTextEdit: jsonValidityChanged ----

\* C17: from construction on, any two consecutive jsonValidityChanged
\* notifications carry different values.
C17_NotificationsAlternate ==
    Len(notified) = 2 => notified[1] # notified[2]

\* The validity last notified and stored in _previous_state is the validity of the
\* current text under the current empty policy.
ValiditySettled == _previous_state = isValid(PyStr(text), ed_empty_policy).ret

\* C18: once text edits and configuration changes (setEmptyPolicy,
\* setFormatterClass, setTextChangeDelay) stop, so that only the event loop takes
\* steps, the editor eventually reaches and stays in a state where the validity
\* last notified equals the validity of the current text under the current policy.
C18_ValiditySettles ==
    <>[][DeliverInitialCheck \/ DeliverTimeout \/ TimePasses]_vars => <>[]ValiditySettled

====
